---- MODULE Spec2Model ----
(***************************************************************************)
(* A model of the atomic_hooks reactive store: atoms, reactions, the       *)
(* dependency graph, propagation (execute_reaction_nodes) and the global   *)
(* undo queue (reverse.rs).                                                *)
(*                                                                         *)
(* The library is synchronous and re-entrant: a write runs reaction        *)
(* bodies, which call accessor functions, which may create atoms and       *)
(* touch the undo queue.  A call is therefore modelled as a machine: the   *)
(* store, a list of calls still to make (todo, innermost first) and the    *)
(* stack of ReactiveContexts of the reaction bodies being run (frames).    *)
(* Each function of the source is an operator that takes the machine,      *)
(* changes the store and queues the calls the function makes; Run executes *)
(* them to completion.  One action is one call of the public API.          *)
(***************************************************************************)
EXTENDS Integers, Sequences, FiniteSets, TLC

VARIABLES
    prog,       \* which client declarations drive the store (a test module)
    vals,       \* key -> Option<T>: the typed value stored under the key
    rx,         \* keys that have an RxFunc registered (Store::new_reaction)
    ctx,        \* key -> Option<ReactiveContext>: the stored context (its accessors)
    deps,       \* producer key -> consumer keys, in insertion order
    queue,      \* Option<UndoStore>: the value of the global_reverse_queue atom
    failure,    \* "none", or the panic that ended the program
    observed,   \* key -> keys observed by the most recent evaluation of the key's body
    trace,      \* the keys whose RxFunc ran during the last call, in order
    last        \* the last API call: [op, key, arg], with the value it found under
                \* a reversible atom's key (prev), the number of commands it
                \* discarded (cut), whether the key had no RxFunc yet (fresh),
                \* what the innermost read returned (ret) and the contexts of
                \* the evaluations it ran, as they were dropped (evals)

\* Key resolution.  The other variables name a key by its accessor function;
\* these two hold what return_key_for_type_and_insert_if_required computes
\* with.
VARIABLES
    hasher,         \* (call-site, args) -> u64: what DefaultHasher yields for a value
    id_to_key_map   \* the StorageKeys the store has registered

vars == <<prog, vals, rx, ctx, deps, queue, failure, observed, trace, last,
          hasher, id_to_key_map>>

----------------------------------------------------------------------------
(* Keys, named after the accessor functions of the test modules.           *)

PlainAtoms == {"a", "b"}
ReversibleAtoms == {"a_reversible", "b_reversible"}
PlainReactions == {"a_b_subtraction", "cond"}
ReversibleReactions == {"a_b_reversible_subtraction"}
\* Reactions over a and over each other: a chain a -> r1 -> r1_next and a
\* diamond a -> {r1, r2} -> r3.
GraphReactions == {"r1", "r2", "r3", "r1_next"}
QueueKey == "global_reverse_queue"

\* The atom c that counts, and the reactions that count the updates of the
\* atom a and of the reaction a_b_subtraction.
CounterAtoms == {"c"}
CountReactions == {"count_print_when_update", "count_subtraction_when_update"}
\* The key of use_state(|| true) at the on_update call of
\* count_subtraction_when_update.
HookKeys == {"first_call_accessor"}

\* A reaction declared with #[reaction(suspended)].
SuspendedReactions == {"r1_suspended"}
\* A reaction whose body panics for one value of a.
FailingReactions == {"failing"}
\* Reactions that read an atom twice, and that read with observe_with, get
\* and get_with.
ObserveReactions == {"twice", "mixed"}
\* A reaction that declares another one from its body, for some values of a.
NestingReactions == {"gate", "late"}
\* Two reactions that observe each other when a is not 0.
CyclicReactions == {"ping", "pong"}

AtomKeys == PlainAtoms \cup ReversibleAtoms \cup CounterAtoms
ReactionKeys ==
    PlainReactions \cup ReversibleReactions \cup GraphReactions \cup CountReactions
      \cup SuspendedReactions \cup FailingReactions \cup ObserveReactions
      \cup NestingReactions \cup CyclicReactions
ValueKeys == AtomKeys \cup ReactionKeys
StoredKeys == ValueKeys \cup HookKeys
AllKeys == ValueKeys \cup {QueueKey}

\* The values a client writes.  The program "reversible" writes two values to
\* a_reversible and only creates and removes b_reversible; the other programs
\* with reversible atoms write one value to each.
PlainVals == {0, 10, 20, 40}
WriteVals(k) ==
    IF prog = "reversible" THEN (IF k = "b_reversible" THEN {} ELSE {1, 2})
    ELSE IF k = "b_reversible" THEN {3}
    ELSE {1}

\* The bounds on the length of the command sequence and on the cursor.
MaxCmds == 2
MaxCursor == 3
\* The bound on the counter c.
MaxCount == 5

\* The values hashed by a declaration: the pointer values of the call sites
\* (CallSite::here()) paired with the argument tuples, and the hash values,
\* few enough for distinct values to collide.
CallSites == {1, 2}
ArgTuples == {0, 1}
HashInputs == CallSites \X ArgTuples
MaxHash == 2
Hashes == 0..MaxHash

\* #[atom] fn a() -> Atom<i32> { 0 }, and the same for b and the reversible atoms.
InitialValue == 0

None == <<>>
Some(v) == <<v>>
Unwrap(o) == o[1]
Range(seq) == {seq[i] : i \in 1..Len(seq)}

RECURSIVE Without(_, _)
Without(seq, x) ==
    IF seq = <<>> THEN <<>>
    ELSE IF Head(seq) = x THEN Without(Tail(seq), x)
    ELSE <<Head(seq)>> \o Without(Tail(seq), x)

\* A call still to make: the function, the key and its other argument.
Call(op, key, arg) == [op |-> op, key |-> key, arg |-> arg]

\* The machine makes these calls next, before the ones already queued.
Then(m, calls) == [m EXCEPT !.todo = calls \o @]

Panic(m, msg) == [m EXCEPT !.failure = msg]

----------------------------------------------------------------------------
(* Store (store.rs): the typed value table, the RxFunc table and the       *)
(* dependency graph.                                                       *)

set_state_with_id(m, data, id) == [m EXCEPT !.vals[id] = Some(data)]

remove_state_with_id(m, id) == [m EXCEPT !.vals[id] = None]

get_state_with_id(m, id) == m.vals[id]

state_exists_with_id(m, id) == m.vals[id] # None

new_reaction(m, id) == [m EXCEPT !.rx = @ \cup {id}]

add_dependency(m, source, dependent) ==
    IF dependent \in Range(m.deps[source]) THEN m
    ELSE [m EXCEPT !.deps[source] = Append(@, dependent)]

remove_dependency(m, source, dependent) ==
    [m EXCEPT !.deps[source] = Without(@, dependent)]

clone_dep_funcs_for_id(m, id) == m.deps[id]

----------------------------------------------------------------------------
(* reactive_state_functions.rs                                             *)

reactive_state_exists_for_id(m, id) == state_exists_with_id(m, id)

clone_reactive_state_with_id(m, id) == get_state_with_id(m, id)

\* The inert write, were it to propagate like the live one.
set_inert_atom_state_propagating(m, data, id) ==
    Then(set_state_with_id(m, data, id),
         <<Call("execute_reaction_nodes", id, None)>>)

set_inert_atom_state_with_id(m, data, id) == set_state_with_id(m, data, id)

remove_reactive_state_with_id(m, id) == remove_state_with_id(m, id)

\* execute_reaction_nodes, were it to stop at the direct dependents.
execute_reaction_nodes_direct_only(m, id) ==
    LET ids_reactions == clone_dep_funcs_for_id(m, id)
    IN Then(m, [j \in 1..Len(ids_reactions) |->
                  Call("call_func", ids_reactions[j], None)])

\* execute_reaction_nodes, were it to leave the loop after the first dependent.
execute_reaction_nodes_first_only(m, id) ==
    LET ids_reactions == clone_dep_funcs_for_id(m, id)
    IN IF ids_reactions = <<>> THEN m
       ELSE Then(m, <<Call("call_func", ids_reactions[1], None),
                      Call("execute_reaction_nodes", ids_reactions[1], None)>>)

\* execute_reaction_nodes, were it to skip a reaction that has already run in
\* the same pass.
execute_reaction_nodes_deduplicated(m, id) ==
    LET ids_reactions == clone_dep_funcs_for_id(m, id)
    IN Then(m, [j \in 1..(2 * Len(ids_reactions)) |->
                  IF j % 2 = 1
                  THEN (IF ids_reactions[(j + 1) \div 2] \in Range(m.trace)
                        THEN Call("skip", id, None)
                        ELSE Call("call_func", ids_reactions[(j + 1) \div 2], None))
                  ELSE Call("execute_reaction_nodes", ids_reactions[j \div 2], None)])

\* execute_reaction_nodes, were it to read the list of dependents again
\* before each dependent instead of walking the list it cloned at the start.
next_dependent(m, id, j) ==
    LET ids_reactions == clone_dep_funcs_for_id(m, id)
    IN IF j > Len(ids_reactions) THEN m
       ELSE Then(m, <<Call("call_func", ids_reactions[j], None),
                      Call("execute_reaction_nodes", ids_reactions[j], None),
                      Call("next_dependent", id, j + 1)>>)

execute_reaction_nodes_rereading(m, id) == next_dependent(m, id, 1)

\* execute_reaction_nodes, were it to pass over a dependent that has already
\* been recomputed in the same pass.
execute_reaction_nodes_visiting_once(m, id) ==
    LET ids_reactions == clone_dep_funcs_for_id(m, id)
    IN Then(m, [j \in 1..Len(ids_reactions) |->
                  Call("visit_once", ids_reactions[j], None)])

visit_once(m, id) ==
    IF id \in Range(m.trace) THEN m
    ELSE Then(m, <<Call("call_func", id, None),
                   Call("execute_reaction_nodes", id, None)>>)

\* for (key, reaction) in &ids_reactions { reaction(); execute_reaction_nodes(&key) }
execute_reaction_nodes(m, id) ==
    LET ids_reactions == clone_dep_funcs_for_id(m, id)
    IN Then(m, [j \in 1..(2 * Len(ids_reactions)) |->
                  IF j % 2 = 1
                  THEN Call("call_func", ids_reactions[(j + 1) \div 2], None)
                  ELSE Call("execute_reaction_nodes", ids_reactions[j \div 2], None)])

\* The live write, were it to store the value after the propagation pass.
set_atom_state_after_propagation(m, data, id) ==
    Then(m, <<Call("execute_reaction_nodes", id, None),
              Call("set_state_with_id", id, data)>>)

\* The live write, were it to skip execute_reaction_nodes.
set_atom_state_without_propagation(m, data, id) == set_state_with_id(m, data, id)

set_atom_state_with_id(m, data, id) ==
    Then(set_state_with_id(m, data, id),
         <<Call("execute_reaction_nodes", id, None)>>)

\* update_atom_state_with_id with the closure |state| *state = v.
update_atom_state_with_id(m, id, v) ==
    IF m.vals[id] = None
    THEN Panic(m, "You are trying to update a type state that doesnt exist in this context!")
    ELSE Then(set_inert_atom_state_with_id(remove_reactive_state_with_id(m, id), v, id),
              <<Call("execute_reaction_nodes", id, None)>>)

\* The closures a client passes to update and get_with: "clone" is |v| v.clone();
\* the others read the same key again from inside the closure, through the
\* handle (get, get_with) or through the accessor function (a().get()).
NestedReads == {"get", "get_with", "accessor_get"}

\* The closures that write the same key through the handle while they run:
\* "set" is |_| a.set(20) and "inert_set" is |_| a.inert_set(20).
NestedWrites == {"set", "inert_set"}

Closure(f, id) ==
    IF f = "get" THEN <<Call("get", id, None)>>
    ELSE IF f = "set" THEN <<Call("set_atom_state_with_id", id, 20)>>
    ELSE IF f = "inert_set"
    THEN <<Call("set_inert_atom_state_with_id", id, 20)>>
    ELSE IF f = "get_with" THEN <<Call("read_reactive_state_with_id", id, "clone")>>
    ELSE IF f = "accessor_get" THEN <<Call("accessor", id, None), Call("get", id, None)>>
    ELSE <<>>

\* The call hands v back to its caller.
return(m, v) == [m EXCEPT !.ret = Some(v)]

\* CloneReactiveState::get, were it to yield the initial value for an absent key.
get_without_expect(m, id) ==
    IF clone_reactive_state_with_id(m, id) = None THEN return(m, InitialValue)
    ELSE return(m, Unwrap(clone_reactive_state_with_id(m, id)))

\* CloneReactiveState::get: clone_reactive_state_with_id(id).expect(..)
get(m, id) ==
    IF clone_reactive_state_with_id(m, id) = None
    THEN Panic(m, "state should be present")
    ELSE return(m, Unwrap(clone_reactive_state_with_id(m, id)))

\* CloneReactiveState::soft_get
soft_get(m, id) == return(m, clone_reactive_state_with_id(m, id))

\* read_reactive_state_with_id, were it to leave out the put back.
read_reactive_state_without_put_back(m, id, f) ==
    IF m.vals[id] = None
    THEN Panic(m, "You are trying to read a type state that doesnt exist in this context!")
    ELSE Then(remove_reactive_state_with_id(m, id), Closure(f, id))

\* read_reactive_state_with_id(id, func): remove, func(&item), put back.
read_reactive_state_with_id(m, id, f) ==
    IF m.vals[id] = None
    THEN Panic(m, "You are trying to read a type state that doesnt exist in this context!")
    ELSE Then(remove_reactive_state_with_id(m, id),
              Closure(f, id)
              \o <<Call("set_inert_atom_state_with_id", id, Unwrap(m.vals[id]))>>
              \o (IF f = "clone" THEN <<Call("return", id, Unwrap(m.vals[id]))>>
                  ELSE <<>>))

\* try_read_reactive_state_with_id(id, |v| v.clone())
try_read_reactive_state_with_id(m, id) ==
    IF m.vals[id] = None THEN return(m, None)
    ELSE Then(remove_reactive_state_with_id(m, id),
              <<Call("set_inert_atom_state_with_id", id, Unwrap(m.vals[id])),
                Call("return", id, m.vals[id])>>)

\* update_atom_state_with_id with a closure that reads the key again and
\* leaves the item as it is.
update_atom_state_with_id_reading(m, id, f) ==
    IF m.vals[id] = None
    THEN Panic(m, "You are trying to update a type state that doesnt exist in this context!")
    ELSE Then(remove_reactive_state_with_id(m, id),
              Closure(f, id)
              \o <<Call("set_inert_atom_state_with_id", id, Unwrap(m.vals[id])),
                   Call("execute_reaction_nodes", id, None)>>)

\* update_atom_state_with_id with a closure that writes the key through the
\* handle and then assigns v to its argument: |state| { a.set(20); *state = v }.
update_atom_state_with_id_writing(m, id, f, v) ==
    IF m.vals[id] = None
    THEN Panic(m, "You are trying to update a type state that doesnt exist in this context!")
    ELSE Then(remove_reactive_state_with_id(m, id),
              Closure(f, id)
              \o <<Call("set_inert_atom_state_with_id", id, v),
                   Call("execute_reaction_nodes", id, None)>>)

----------------------------------------------------------------------------
(* reverse.rs: the undo queue, stored as the value of an ordinary atom.    *)

Cmd(op, key, val) == [op |-> op, key |-> key, val |-> val]
Command(do_cmd, undo_cmd) == [do_cmd |-> do_cmd, reverse_cmd |-> undo_cmd]
UndoStore_default == [commands |-> <<>>, cursor |-> 0]

Truncate(seq, n) == IF n >= Len(seq) THEN seq ELSE SubSeq(seq, 1, n)

\* The #[atom] accessor of the queue: creates the default queue when the
\* store holds none (also while an update has taken the queue out).
global_reverse_queue(m) ==
    IF m.queue # None THEN m
    ELSE [m EXCEPT !.rx = @ \cup {QueueKey},
                   !.trace = Append(@, QueueKey),
                   !.queue = Some(UndoStore_default)]

\* The recording closure, were it to leave out commands.truncate(cursor).
record_command_without_truncate(u, c) ==
    [commands |-> Append(u.commands, c), cursor |-> u.cursor + 1]

\* truncate to the cursor, push, advance the cursor.
record_command(u, c) ==
    [commands |-> Append(Truncate(u.commands, u.cursor), c),
     cursor |-> u.cursor + 1]

\* atom_reverse: push only.
push_command(u, c) == [u EXCEPT !.commands = Append(@, c)]

\* remove of an absent state: the cursor alone advances.
advance_cursor(u) == [u EXCEPT !.cursor = @ + 1]

\* global_reverse_queue().update(f), f one of the three closures above:
\* update_atom_state_with_id on the queue's key.
update_undo_store(m, f, c) ==
    LET m0 == global_reverse_queue(m)
        u == Unwrap(m0.queue)
        edited == IF f = "record" THEN record_command(u, c)
                  ELSE IF f = "push" THEN push_command(u, c)
                  ELSE advance_cursor(u)
    IN Then([m0 EXCEPT !.queue = Some(edited),
                       !.cut = @ + (IF f = "record"
                                    THEN Len(u.commands) + 1 - Len(edited.commands)
                                    ELSE 0)],
            <<Call("execute_reaction_nodes", QueueKey, None)>>)

NoCommand == Command(Cmd("none", "", None), Cmd("none", "", None))

set_inert_atom_reversible_state_with_id(m, data, id) ==
    LET previous_state == clone_reactive_state_with_id(m, id)
    IN IF previous_state # None
       THEN Then(m, <<Call("update_undo_store", "record",
                          Command(Cmd("set_inert", id, Some(data)),
                                  Cmd("set_inert", id, previous_state))),
                      Call("set_state_with_id", id, data)>>)
       ELSE set_state_with_id(m, data, id)

set_atom_reversible_state_with_id(m, data, id) ==
    LET previous_state == clone_reactive_state_with_id(m, id)
        command == IF previous_state # None
                   THEN Command(Cmd("set", id, Some(data)),
                                Cmd("set_inert", id, previous_state))
                   ELSE Command(Cmd("set", id, Some(data)),
                                Cmd("remove", id, None))
    IN Then(m, <<Call("update_undo_store", "record", command),
                 Call("set_state_with_id", id, data),
                 Call("execute_reaction_nodes", id, None)>>)

remove_reactive_reversible_state_with_id(m, id) ==
    LET previous_state == clone_reactive_state_with_id(m, id)
    IN IF previous_state # None
       THEN Then(m, <<Call("update_undo_store", "record",
                          Command(Cmd("remove", id, None),
                                  Cmd("set_inert", id, previous_state))),
                      Call("remove_state_with_id", id, None)>>)
       ELSE Then(m, <<Call("update_undo_store", "advance", NoCommand),
                      Call("remove_state_with_id", id, None)>>)

\* The reversible update, were it to record its command before it takes the
\* value out of the store.
update_atom_reversible_state_recording_first(m, id, v) ==
    Then(m, <<Call("update_undo_store", "record",
                   Command(Cmd("set_inert", id, Some(v)),
                           Cmd("set_inert", id, m.vals[id]))),
              Call("update_atom_state_with_id", id, v)>>)

\* update_atom_reversible_state_with_id with the closure |state| *state = v:
\* the value is out of the store while the command is recorded.
update_atom_reversible_state_with_id(m, id, v) ==
    IF m.vals[id] = None
    THEN Panic(m, "You are trying to update a type state that doesnt exist in this context!")
    ELSE Then(remove_reactive_state_with_id(m, id),
              <<Call("update_undo_store", "record",
                     Command(Cmd("set_inert", id, Some(v)),
                             Cmd("set_inert", id, m.vals[id]))),
                Call("set_state_with_id", id, v),
                Call("execute_reaction_nodes", id, None)>>)

----------------------------------------------------------------------------
(* The client declarations (the test modules) and the accessor functions   *)
(* that #[atom] and #[reaction] generate for them (macro/src/lib.rs).      *)

\* ReactiveContext::new(id), with the values the body has observed so far.
ReactiveContext(id) == [key |-> id, reactive_state_accessors |-> <<>>, got |-> <<>>]

\* illicit::Layer::new().offer(context).enter(..), and its end.
Enter(m, id) == [m EXCEPT !.frames = <<ReactiveContext(id)>> \o @]

Leave(m) ==
    LET context == Head(m.frames)
    IN [m EXCEPT !.frames = Tail(@),
                 !.observed[context.key] = Range(context.reactive_state_accessors),
                 !.evals = Append(@, context)]

\* #[reaction] fn a_b_subtraction() { let a = a().observe(); let b = b().observe(); a - b }
a_b_subtraction ==
    <<Call("accessor", "a", None), Call("observe", "a", None),
      Call("accessor", "b", None), Call("observe", "b", None)>>

a_b_reversible_subtraction ==
    <<Call("accessor", "a_reversible", None), Call("observe", "a_reversible", None),
      Call("accessor", "b_reversible", None), Call("observe", "b_reversible", None)>>

\* A reaction that reads b only sometimes:
\* #[reaction] fn cond() { let a = a().observe(); if a != 0 { b().observe() } else { 0 } }
cond == <<Call("accessor", "a", None), Call("observe", "a", None),
          Call("cond_branch", "cond", None)>>

\* #[reaction] fn r1() { a().observe() + 1 }
r1 == <<Call("accessor", "a", None), Call("observe", "a", None)>>

\* #[reaction] fn r2() { a().observe() * 2 }
r2 == <<Call("accessor", "a", None), Call("observe", "a", None)>>

\* #[reaction] fn r3() { r1().observe() + r2().observe() }
r3 == <<Call("accessor", "r1", None), Call("observe", "r1", None),
        Call("accessor", "r2", None), Call("observe", "r2", None)>>

\* #[reaction] fn r1_next() { r1().observe() * 10 }
r1_next == <<Call("accessor", "r1", None), Call("observe", "r1", None)>>

\* #[reaction] fn failing() { let a = a().observe(); if a == 40 { panic!("a is 40") } a }
failing ==
    <<Call("accessor", "a", None), Call("observe", "a", None),
      Call("failing_branch", "failing", None)>>

failing_branch(m) ==
    IF Head(m.frames).got[1] = 40 THEN Panic(m, "a is 40") ELSE m

\* #[reaction(suspended)] fn r1_suspended() { a().observe() + 1 }
r1_suspended == <<Call("accessor", "a", None), Call("observe", "a", None)>>

\* #[reaction] fn twice() { a().observe() + a().observe() }
twice ==
    <<Call("accessor", "a", None), Call("observe", "a", None),
      Call("accessor", "a", None), Call("observe", "a", None)>>

\* #[reaction] fn mixed() {
\*     a().observe_with(|v| *v) + b().get() + b().get_with(|v| *v) }
mixed ==
    <<Call("accessor", "a", None), Call("observe_with", "a", "clone"),
      Call("bind", "a", None),
      Call("accessor", "b", None), Call("get_in_body", "b", None),
      Call("accessor", "b", None), Call("read_reactive_state_with_id", "b", "clone"),
      Call("bind", "b", None)>>

\* #[reaction] fn late() { a().observe() + 1 }
late == <<Call("accessor", "a", None), Call("observe", "a", None)>>

\* #[reaction] fn gate() { let a = a().observe(); if a != 0 { late().observe() } else { 0 } }
gate == <<Call("accessor", "a", None), Call("observe", "a", None),
          Call("gate_branch", "gate", None)>>

gate_branch(m) ==
    IF Head(m.frames).got[1] # 0
    THEN Then(m, <<Call("accessor", "late", None), Call("observe", "late", None)>>)
    ELSE m

\* #[reaction] fn ping() { let a = a().observe(); if a != 0 { pong().observe() } else { 0 } }
\* #[reaction] fn pong() { let a = a().observe(); if a != 0 { ping().observe() } else { 0 } }
ping == <<Call("accessor", "a", None), Call("observe", "a", None),
          Call("other_branch", "pong", None)>>

pong == <<Call("accessor", "a", None), Call("observe", "a", None),
          Call("other_branch", "ping", None)>>

other_branch(m, other) ==
    IF Head(m.frames).got[1] # 0
    THEN Then(m, <<Call("accessor", other, None), Call("observe", other, None)>>)
    ELSE m

\* #[reaction] fn count_print_when_update() {
\*     let c = c(); let _update = a().on_update(|| c.update(|v| *v += 1)); c.get() }
count_print_when_update ==
    <<Call("accessor", "c", None),
      Call("accessor", "a", None), Call("Atom_on_update", "a", "c"),
      Call("get_in_body", "c", None)>>

\* #[reaction] fn count_subtraction_when_update() {
\*     let c = c();
\*     let _update = a_b_subtraction().on_update(|| c.update(|v| *v += 1)); c.get() }
count_subtraction_when_update ==
    <<Call("accessor", "c", None),
      Call("accessor", "a_b_subtraction", None),
      Call("Reaction_on_update", "a_b_subtraction", "c"),
      Call("get_in_body", "c", None)>>

cond_branch(m) ==
    IF Head(m.frames).got[1] # 0
    THEN Then(m, <<Call("accessor", "b", None), Call("observe", "b", None)>>)
    ELSE m

Body(id) ==
    IF id = "a_b_subtraction" THEN a_b_subtraction
    ELSE IF id = "a_b_reversible_subtraction" THEN a_b_reversible_subtraction
    ELSE IF id = "r1" THEN r1
    ELSE IF id = "r2" THEN r2
    ELSE IF id = "r3" THEN r3
    ELSE IF id = "r1_next" THEN r1_next
    ELSE IF id = "r1_suspended" THEN r1_suspended
    ELSE IF id = "failing" THEN failing
    ELSE IF id = "twice" THEN twice
    ELSE IF id = "ping" THEN ping
    ELSE IF id = "pong" THEN pong
    ELSE IF id = "late" THEN late
    ELSE IF id = "gate" THEN gate
    ELSE IF id = "mixed" THEN mixed
    ELSE IF id = "count_print_when_update" THEN count_print_when_update
    ELSE IF id = "count_subtraction_when_update" THEN count_subtraction_when_update
    ELSE cond

\* The value of the body, from the values it observed.
BodyValue(id, got) ==
    IF id \in {"cond", "gate"} \cup CyclicReactions THEN (IF got[1] # 0 THEN got[2] ELSE 0)
    ELSE IF id \in {"r1", "r1_suspended", "late"} THEN got[1] + 1
    ELSE IF id = "r2" THEN got[1] * 2
    ELSE IF id = "r3" THEN got[1] + got[2]
    ELSE IF id = "r1_next" THEN got[1] * 10
    ELSE IF id = "twice" THEN got[1] + got[2]
    ELSE IF id = "mixed" THEN got[1] + got[2] + got[3]
    ELSE IF id \in CountReactions \cup FailingReactions THEN got[1]
    ELSE got[1] - got[2]

\* The closure `func` of a generated atom accessor: the body's value is
\* stored inertly, through the undo queue for a reversible atom.
atom_func(m, id) ==
    Then(Enter(m, id),
         <<Call(IF id \in ReversibleAtoms
                THEN "set_inert_atom_reversible_state_with_id"
                ELSE "set_state_with_id", id, InitialValue),
           Call("leave", id, None)>>)

\* The closure `func` of a generated reaction accessor.
reaction_func(m, id) ==
    Then(Enter(m, id),
         Body(id) \o <<Call("set_reaction_value", id, None),
                       Call("unlink_dead_links", id, None),
                       Call("leave", id, None)>>)

set_reaction_value(m, id) ==
    set_inert_atom_state_with_id(m, BodyValue(id, Head(m.frames).got), id)

\* (reaction.func)(): the RxFunc registered under the key.
call_func(m, id) ==
    LET m1 == [m EXCEPT !.trace = Append(@, id)]
    IN IF id \in AtomKeys THEN atom_func(m1, id)
       ELSE IF id \in ReactionKeys THEN reaction_func(m1, id)
       ELSE [m1 EXCEPT !.queue = Some(UndoStore_default)]

\* atom, were it to run the initializer on every call.
atom_always_initialising(m, id) ==
    Then(new_reaction(m, id), <<Call("call_func", id, None)>>)

atom(m, id) ==
    IF reactive_state_exists_for_id(m, id) THEN m
    ELSE Then(new_reaction(m, id), <<Call("call_func", id, None)>>)

atom_reverse(m, id) ==
    IF reactive_state_exists_for_id(m, id) THEN m
    ELSE Then(new_reaction(m, id),
              <<Call("call_func", id, None),
                Call("update_undo_store", "push",
                     Command(Cmd("func", id, None), Cmd("remove", id, None)))>>)

reaction(m, id) ==
    IF reactive_state_exists_for_id(m, id) THEN m
    ELSE Then(new_reaction(m, id), <<Call("call_func", id, None)>>)

\* reaction_start_suspended, were it to invoke the RxFunc at once.
reaction_start_suspended_invoking(m, id) ==
    IF reactive_state_exists_for_id(m, id) THEN m
    ELSE Then(new_reaction(m, id), <<Call("call_func", id, None)>>)

\* reaction_start_suspended: the RxFunc is registered and not invoked.
reaction_start_suspended(m, id) ==
    IF reactive_state_exists_for_id(m, id) THEN m
    ELSE new_reaction(m, id)

\* A call of the generated accessor function a(), b(), a_b_subtraction(), ...
Accessor(m, id) ==
    IF id = QueueKey THEN global_reverse_queue(m)
    ELSE IF id \in PlainAtoms \cup CounterAtoms THEN atom(m, id)
    ELSE IF id \in ReversibleAtoms THEN atom_reverse(m, id)
    ELSE IF id \in SuspendedReactions THEN reaction_start_suspended(m, id)
    ELSE reaction(m, id)

\* Observable::observe, were it to list a key once however often it is read.
observe_listing_once(m, id) ==
    IF m.frames = <<>>
    THEN Panic(m, "No #[reaction] context found")
    ELSE LET context == Head(m.frames)
             m1 == IF id \in Range(context.reactive_state_accessors) THEN m
                   ELSE [m EXCEPT !.frames[1].reactive_state_accessors = Append(@, id)]
             m2 == add_dependency(m1, id, context.key)
         IN IF clone_reactive_state_with_id(m2, id) = None
            THEN Panic(m2, "called Option::unwrap() on a None value")
            ELSE [m2 EXCEPT !.frames[1].got =
                                Append(@, Unwrap(clone_reactive_state_with_id(m2, id)))]

\* Observable::observe
observe(m, id) ==
    IF m.frames = <<>>
    THEN Panic(m, "No #[reaction] context found")
    ELSE LET context == Head(m.frames)
             m1 == [m EXCEPT !.frames[1].reactive_state_accessors = Append(@, id)]
             m2 == add_dependency(m1, id, context.key)
         IN IF clone_reactive_state_with_id(m2, id) = None
            THEN Panic(m2, "called Option::unwrap() on a None value")
            ELSE [m2 EXCEPT !.frames[1].got =
                                Append(@, Unwrap(clone_reactive_state_with_id(m2, id)))]

\* Observable::observe_with, were it to expect a context as observe does.
observe_with_expecting_context(m, id, f) ==
    IF m.frames = <<>>
    THEN Panic(m, "No #[reaction] context found")
    ELSE read_reactive_state_with_id(
             add_dependency(
                 [m EXCEPT !.frames[1].reactive_state_accessors = Append(@, id)],
                 id, Head(m.frames).key),
             id, f)

\* Observable::observe_with(func), func a closure that ignores the value
\* ("ignore") or |v| *v ("clone"): the key is pushed on the context and the
\* edge added if a context is offered, then read_reactive_state_with_id(id, func).
observe_with(m, id, f) ==
    LET m2 == IF m.frames = <<>> THEN m
              ELSE add_dependency(
                       [m EXCEPT !.frames[1].reactive_state_accessors = Append(@, id)],
                       id, Head(m.frames).key)
    IN read_reactive_state_with_id(m2, id, f)

\* let v = ..: the body takes the value a read handed back.
bind(m) == [m EXCEPT !.frames[1].got = Append(@, Unwrap(m.ret))]

\* c.update(|v| *v += 1)
increment(m, id) ==
    IF m.vals[id] = None
    THEN Panic(m, "You are trying to update a type state that doesnt exist in this context!")
    ELSE update_atom_state_with_id(m, id, Unwrap(m.vals[id]) + 1)

\* c.get() as the value of the body.
get_in_body(m, id) ==
    IF clone_reactive_state_with_id(m, id) = None
    THEN Panic(m, "state should be present")
    ELSE [m EXCEPT !.frames[1].got =
                       Append(@, Unwrap(clone_reactive_state_with_id(m, id)))]

\* Atom::on_update(func): observe_with(|_| recalc = true), then func() if recalc.
Atom_on_update(m, id, counter) ==
    Then(m, <<Call("observe_with", id, "ignore"), Call("increment", counter, None)>>)

\* hooks_state_functions::use_state(|| data): the state kept for the call
\* position, created with data on the first call from that position.
use_state(m, hook, data) ==
    IF m.vals[hook] = None THEN set_state_with_id(m, data, hook) ELSE m

\* Reaction::on_update(func): the closure handed to observe_with clears
\* first_call_accessor on the first call and sets recalc on the later ones;
\* func() runs if recalc.
Reaction_on_update(m, id, counter) ==
    LET hook == "first_call_accessor"
        m1 == use_state(m, hook, TRUE)
    IN Then(m1, <<Call("observe_with", id, "ignore"),
                  IF Unwrap(m1.vals[hook])
                  THEN Call("set_state_with_id", hook, FALSE)
                  ELSE Call("increment", counter, None)>>)

unlink_dead_links(m, id) ==
    LET context == Head(m.frames)
    IN IF m.ctx[id] # None
       THEN LET old_context == Unwrap(m.ctx[id])
                ids_to_remove == Range(old_context)
                                   \ Range(context.reactive_state_accessors)
            IN [m EXCEPT !.deps = [s \in DOMAIN @ |->
                                     IF s \in ids_to_remove
                                     THEN clone_dep_funcs_for_id(
                                              remove_dependency(m, s, id), s)
                                     ELSE @[s]]]
       ELSE [m EXCEPT !.ctx[id] = Some(context.reactive_state_accessors)]

----------------------------------------------------------------------------
(* reverse.rs: travel_backwards and travel_forwards.  Both are             *)
(* update_atom_state_with_id on the queue's key: the queue is taken out of *)
(* the store, the closure runs one command's closure and moves the cursor  *)
(* of the copy it holds, and the copy is put back.                         *)

\* The call a recorded closure makes.
run_cmd(c) ==
    IF c.op = "set" THEN Call("set_atom_state_with_id", c.key, Unwrap(c.val))
    ELSE IF c.op = "set_inert" THEN Call("set_state_with_id", c.key, Unwrap(c.val))
    ELSE IF c.op = "remove" THEN Call("remove_state_with_id", c.key, None)
    ELSE Call("call_func", c.key, None)

\* set_inert_atom_state_with_id(item, id) at the end of the update.
put_back(m, item) == [m EXCEPT !.queue = Some(item)]

travel_backwards(m) ==
    LET m0 == global_reverse_queue(m)
        item == Unwrap(m0.queue)
        taken == [m0 EXCEPT !.queue = None]
    IN IF item.cursor > 0
       THEN IF item.cursor > Len(item.commands)
            THEN Panic(taken, "index out of bounds")
            ELSE Then(taken,
                      <<run_cmd(item.commands[item.cursor].reverse_cmd),
                        Call("put_back", QueueKey, [item EXCEPT !.cursor = @ - 1]),
                        Call("execute_reaction_nodes", QueueKey, None)>>)
       ELSE Then(taken, <<Call("put_back", QueueKey, item),
                          Call("execute_reaction_nodes", QueueKey, None)>>)

\* travel_forwards, were it to run the closure with the queue left in the
\* store and to advance the cursor of the stored queue afterwards.
travel_forwards_in_place(m) ==
    LET m0 == global_reverse_queue(m)
        item == Unwrap(m0.queue)
    IN IF item.cursor < Len(item.commands)
       THEN Then(m0, <<run_cmd(item.commands[item.cursor + 1].do_cmd),
                       Call("update_undo_store", "advance", NoCommand)>>)
       ELSE m0

\* travel_forwards, were it to advance the cursor without calling do_cmd.
travel_forwards_without_closure(m) ==
    LET m0 == global_reverse_queue(m)
        item == Unwrap(m0.queue)
        taken == [m0 EXCEPT !.queue = None]
    IN IF item.cursor < Len(item.commands)
       THEN Then(taken,
                 <<Call("put_back", QueueKey, [item EXCEPT !.cursor = @ + 1]),
                   Call("execute_reaction_nodes", QueueKey, None)>>)
       ELSE Then(taken, <<Call("put_back", QueueKey, item),
                          Call("execute_reaction_nodes", QueueKey, None)>>)

travel_forwards(m) ==
    LET m0 == global_reverse_queue(m)
        item == Unwrap(m0.queue)
        taken == [m0 EXCEPT !.queue = None]
    IN IF item.cursor < Len(item.commands)
       THEN Then(taken,
                 <<run_cmd(item.commands[item.cursor + 1].do_cmd),
                   Call("put_back", QueueKey, [item EXCEPT !.cursor = @ + 1]),
                   Call("execute_reaction_nodes", QueueKey, None)>>)
       ELSE Then(taken, <<Call("put_back", QueueKey, item),
                          Call("execute_reaction_nodes", QueueKey, None)>>)

\* travel_to_cursor, were it to accept every target without the assertions.
travel_to_cursor_clamping(m, cursor) ==
    LET m0 == global_reverse_queue(m)
        item == Unwrap(m0.queue)
        taken == [m0 EXCEPT !.queue = None]
    IN Then(taken, <<Call("put_back", QueueKey, item),
                     Call("execute_reaction_nodes", QueueKey, None)>>)

\* travel_to_cursor(cursor): the two assertions, then an update of the queue.
\* The branch taken when cursor > queue.cursor loops while cursor <
\* queue.cursor, so it runs nothing.  The branch taken when cursor <
\* queue.cursor runs do closures and moves the cursor up, away from the
\* target; once queue.cursor reaches commands.len() (or when it started there)
\* the loop spins without changing anything and the call never returns.
travel_to_cursor(m, cursor) ==
    LET m0 == global_reverse_queue(m)
        item == Unwrap(m0.queue)
        taken == [m0 EXCEPT !.queue = None]
    IN IF ~(cursor > 0)
       THEN Panic(m0, "assertion failed: cursor > 0")
       ELSE IF ~(cursor < Len(item.commands))
       THEN Panic(m0, "assertion failed: cursor < self.len()")
       ELSE IF cursor > item.cursor
       THEN Then(taken, <<Call("put_back", QueueKey, item),
                          Call("execute_reaction_nodes", QueueKey, None)>>)
       ELSE IF cursor < item.cursor
       THEN Then(taken,
                 [i \in 1..(Len(item.commands) - item.cursor) |->
                     run_cmd(item.commands[item.cursor + i].do_cmd)]
                 \o <<Call("loop_forever", QueueKey, None)>>)
       ELSE Then(taken, <<Call("put_back", QueueKey, item),
                          Call("execute_reaction_nodes", QueueKey, None)>>)

\* while cursor < queue.cursor { if queue.cursor < queue.commands.len() { .. } }
\* with queue.cursor >= commands.len(): no iteration changes anything.
loop_forever(m) == Panic(m, "travel_to_cursor does not return")

----------------------------------------------------------------------------
(* Key resolution (reactive_state_functions.rs, helpers.rs).               *)

SlottedKey(location, slot) == [location |-> location, slot |-> slot]

\* Store::return_key_for_type_and_insert_if_required(key, value): the key is
\* registered if it is not yet, and handed back.
insert_if_required(map, key) == map \cup {key}

\* Key resolution, were the slot to number the declarations made so far.
return_key_with_fresh_slot(h, map, value) ==
    SlottedKey(h[value], Cardinality(map))

\* return_key_for_type_and_insert_if_required(value): the hash of the value is
\* the location, the slot is 0.
return_key_for_type_and_insert_if_required(h, map, value) ==
    SlottedKey(h[value], 0)

----------------------------------------------------------------------------
(* The methods of the handles Atom, ReversibleAtom and Reaction that hand  *)
(* a value back (atom.rs, reversible_atom.rs, reaction.rs).                *)

\* remove, were it to hand the value back and leave it in the store.
remove_keeping_state(m, id) == return(m, m.vals[id])

\* Atom::remove and Reaction::remove are remove_reactive_state_with_id(self.id),
\* ReversibleAtom::remove is remove_reactive_reversible_state_with_id(self.id);
\* each hands back what the store's remove_state_with_id found, which is the
\* value the key holds when the call starts.
remove(m, id) ==
    Then(m, <<Call(IF id \in ReversibleAtoms
                   THEN "remove_reactive_reversible_state_with_id"
                   ELSE "remove_reactive_state_with_id", id, None),
              Call("return", id, m.vals[id])>>)

\* The call returns ().
unit(m) == [m EXCEPT !.ret = None]

\* delete: self.remove();
delete(m, id) == Then(m, <<Call("remove", id, None), Call("unit", id, None)>>)

\* state_exists: reactive_state_exists_for_id::<T>(self.id)
state_exists(m, id) == return(m, reactive_state_exists_for_id(m, id))

\* reset_to_default, were it to leave the dependents as they are.
reset_to_default_without_propagation(m, id) ==
    Then(m, <<Call("call_func", id, None)>>)

\* Atom::reset_to_default and ReversibleAtom::reset_to_default:
\* (clone_reactive_state_with_id::<RxFunc>(self.id).unwrap().func)();
\* execute_reaction_nodes(&self.id);
reset_to_default(m, id) ==
    Then(m, <<Call("call_func", id, None),
              Call("execute_reaction_nodes", id, None)>>)

\* Reaction::force_trigger: (clone_reactive_state_with_id::<RxFunc>(self.id).unwrap().func)()
force_trigger(m, id) == Then(m, <<Call("call_func", id, None)>>)

\* a().method(): the accessor function is called and the method is called on
\* the handle it returns.
call_on_accessor(m, id, method) ==
    Then(m, <<Call("accessor", id, None), Call(method, id, None)>>)

----------------------------------------------------------------------------
(* The machine.                                                            *)

\* The next call is taken off the list and made.
Step(m) ==
    LET c == Head(m.todo)
        n == [m EXCEPT !.todo = Tail(@)]
    IN CASE c.op = "call_func" -> call_func(n, c.key)
         [] c.op = "execute_reaction_nodes" -> execute_reaction_nodes(n, c.key)
         [] c.op = "update_undo_store" -> update_undo_store(n, c.key, c.arg)
         [] c.op = "set_state_with_id" -> set_state_with_id(n, c.arg, c.key)
         [] c.op = "remove_state_with_id" -> remove_state_with_id(n, c.key)
         [] c.op = "set_inert_atom_state_with_id" ->
                set_inert_atom_state_with_id(n, c.arg, c.key)
         [] c.op = "remove_reactive_state_with_id" ->
                remove_reactive_state_with_id(n, c.key)
         [] c.op = "set_atom_state_with_id" -> set_atom_state_with_id(n, c.arg, c.key)
         [] c.op = "update_atom_state_with_id" -> update_atom_state_with_id(n, c.key, c.arg)
         [] c.op = "set_inert_atom_reversible_state_with_id" ->
                set_inert_atom_reversible_state_with_id(n, c.arg, c.key)
         [] c.op = "set_atom_reversible_state_with_id" ->
                set_atom_reversible_state_with_id(n, c.arg, c.key)
         [] c.op = "update_atom_reversible_state_with_id" ->
                update_atom_reversible_state_with_id(n, c.key, c.arg)
         [] c.op = "remove_reactive_reversible_state_with_id" ->
                remove_reactive_reversible_state_with_id(n, c.key)
         [] c.op = "accessor" -> Accessor(n, c.key)
         [] c.op = "observe" -> observe(n, c.key)
         [] c.op = "cond_branch" -> cond_branch(n)
         [] c.op = "other_branch" -> other_branch(n, c.key)
         [] c.op = "visit_once" -> visit_once(n, c.key)
         [] c.op = "gate_branch" -> gate_branch(n)
         [] c.op = "next_dependent" -> next_dependent(n, c.key, c.arg)
         [] c.op = "failing_branch" -> failing_branch(n)
         [] c.op = "set_reaction_value" -> set_reaction_value(n, c.key)
         [] c.op = "unlink_dead_links" -> unlink_dead_links(n, c.key)
         [] c.op = "leave" -> Leave(n)
         [] c.op = "skip" -> n
         [] c.op = "return" -> return(n, c.arg)
         [] c.op = "get" -> get(n, c.key)
         [] c.op = "soft_get" -> soft_get(n, c.key)
         [] c.op = "read_reactive_state_with_id" ->
                read_reactive_state_with_id(n, c.key, c.arg)
         [] c.op = "try_read_reactive_state_with_id" ->
                try_read_reactive_state_with_id(n, c.key)
         [] c.op = "update_atom_state_with_id_reading" ->
                update_atom_state_with_id_reading(n, c.key, c.arg)
         [] c.op = "update_atom_state_with_id_writing" ->
                update_atom_state_with_id_writing(n, c.key, c.arg[1], c.arg[2])
         [] c.op = "observe_with" -> observe_with(n, c.key, c.arg)
         [] c.op = "bind" -> bind(n)
         [] c.op = "increment" -> increment(n, c.key)
         [] c.op = "get_in_body" -> get_in_body(n, c.key)
         [] c.op = "Atom_on_update" -> Atom_on_update(n, c.key, c.arg)
         [] c.op = "Reaction_on_update" -> Reaction_on_update(n, c.key, c.arg)
         [] c.op = "remove" -> remove(n, c.key)
         [] c.op = "unit" -> unit(n)
         [] c.op = "delete" -> delete(n, c.key)
         [] c.op = "state_exists" -> state_exists(n, c.key)
         [] c.op = "reset_to_default" -> reset_to_default(n, c.key)
         [] c.op = "force_trigger" -> force_trigger(n, c.key)
         [] c.op = "call_on_accessor" -> call_on_accessor(n, c.key, c.arg)
         [] c.op = "put_back" -> put_back(n, c.arg)
         [] c.op = "travel_backwards" -> travel_backwards(n)
         [] c.op = "travel_forwards" -> travel_forwards(n)
         [] c.op = "travel_to_cursor" -> travel_to_cursor(n, c.arg)
         [] c.op = "loop_forever" -> loop_forever(n)

\* The call runs to completion, or to the panic that unwinds it.
RECURSIVE Run(_)
Run(m) ==
    IF m.failure # "none" \/ m.todo = <<>> THEN m ELSE Run(Step(m))

\* The store on which a call of execute_reaction_nodes or of an RxFunc works:
\* what it does until it returns depends on its key and on this alone.
StoreOf(m) ==
    [vals |-> m.vals, rx |-> m.rx, ctx |-> m.ctx, deps |-> m.deps, queue |-> m.queue]

\* Run, with a watch on the calls of execute_reaction_nodes and of the
\* RxFuncs that have not returned yet (those entered with no more calls left
\* to make than there are now).  A call entered again for the same key on the
\* same store before it has returned does what it did the first time, so it
\* enters itself again: the recursion has no end and the stack overflows.
RECURSIVE RunWatching(_, _)
RunWatching(m, entered) ==
    IF m.failure # "none" \/ m.todo = <<>> THEN m
    ELSE LET c == Head(m.todo)
             rest == Len(m.todo) - 1
             open == SelectSeq(entered, LAMBDA e : e.rest <= rest)
             here == [op |-> c.op, key |-> c.key, store |-> StoreOf(m), rest |-> rest]
         IN IF c.op \in {"execute_reaction_nodes", "call_func"}
            THEN IF \E i \in 1..Len(open) :
                       /\ open[i].op = here.op /\ open[i].key = here.key
                       /\ open[i].store = here.store
                 THEN Panic(m, "recursion without end")
                 ELSE RunWatching(Step(m), Append(open, here))
            ELSE RunWatching(Step(m), open)

\* The store as the machine finds it at the start of a call.
Machine ==
    [vals |-> vals, rx |-> rx, ctx |-> ctx, deps |-> deps, queue |-> queue,
     failure |-> failure, observed |-> observed, trace |-> <<>>,
     cut |-> 0, ret |-> None, todo |-> <<>>, frames |-> <<>>, evals |-> <<>>]

\* The programs whose reactions can come to observe each other.
CyclicPrograms == {"cycle"}

\* The call c made on the store as it is, run until it returns, panics or
\* is found never to return.  Only the cyclic programs need the watch: in the
\* others every call comes to an end.
Completion(c) ==
    IF prog \in CyclicPrograms THEN RunWatching(Then(Machine, <<c>>), <<>>)
    ELSE Run(Then(Machine, <<c>>))

\* The model keeps the command sequence and the cursor within their bounds.
QueueWithin(m) ==
    IF m.queue = None THEN TRUE
    ELSE /\ Len(Unwrap(m.queue).commands) <= MaxCmds
         /\ Unwrap(m.queue).cursor <= MaxCursor

\* The model keeps the counter c within its bound.
CountWithin(m) ==
    IF m.vals["c"] = None THEN TRUE ELSE Unwrap(m.vals["c"]) <= MaxCount

\* The API call `op` on the handle of `key` makes the call c.
Do(c, op, key) ==
    \E m \in {Completion(c)} :
       /\ failure = "none"
       /\ QueueWithin(m)
       /\ CountWithin(m)
       /\ vals' = m.vals
       /\ rx' = m.rx
       /\ ctx' = m.ctx
       /\ deps' = m.deps
       /\ queue' = m.queue
       /\ failure' = m.failure
       /\ observed' = m.observed
       /\ trace' = m.trace
       /\ last' = [op |-> op, key |-> key, arg |-> c.arg,
                   prev |-> IF key \in ReversibleAtoms THEN vals[key] ELSE None,
                   cut |-> m.cut, fresh |-> key \notin rx, ret |-> m.ret,
                   evals |-> m.evals]
       /\ prog' = prog
       /\ UNCHANGED <<hasher, id_to_key_map>>

----------------------------------------------------------------------------
(* The client programs: the atoms and reactions a test module declares.    *)

Atoms(p) ==
    IF p \in {"reactive", "read"} THEN PlainAtoms
    ELSE IF p = "graph" THEN {"a"}
    ELSE IF p = "handle" THEN {"a", "a_reversible"}
    ELSE IF p = "on_update_atom" THEN {"a", "c"}
    ELSE IF p \in {"suspended", "failing"} THEN {"a"}
    ELSE IF p = "observe" THEN PlainAtoms
    ELSE IF p \in {"order", "cycle"} THEN {"a"}
    ELSE IF p = "on_update_reaction" THEN {"a", "b", "c"}
    ELSE ReversibleAtoms

Reactions(p) ==
    IF p = "reactive" THEN PlainReactions
    ELSE IF p = "reversible_reaction" THEN ReversibleReactions
    ELSE IF p = "graph" THEN GraphReactions
    ELSE IF p = "read" THEN {"a_b_subtraction"}
    ELSE IF p = "handle" THEN {"r1"}
    ELSE IF p = "on_update_atom" THEN {"count_print_when_update"}
    ELSE IF p = "suspended" THEN {"r1_suspended"}
    ELSE IF p = "failing" THEN {"r1", "r2", "failing"}
    ELSE IF p = "observe" THEN ObserveReactions
    ELSE IF p = "cycle" THEN CyclicReactions
    ELSE IF p = "order" THEN {"r1", "r2", "r1_next"} \cup NestingReactions
    ELSE IF p = "on_update_reaction"
         THEN {"a_b_subtraction", "count_subtraction_when_update"}
    ELSE {}

InitStore ==
    /\ vals = [k \in StoredKeys |-> None]
    /\ rx = {}
    /\ ctx = [k \in AllKeys |-> None]
    /\ deps = [k \in AllKeys |-> <<>>]
    /\ queue = None
    /\ failure = "none"
    /\ observed = [k \in AllKeys |-> {}]
    /\ trace = <<>>
    /\ last = [op |-> "none", key |-> "", arg |-> None, prev |-> None, cut |-> 0,
               fresh |-> FALSE, ret |-> None, evals |-> <<>>]
    /\ hasher \in (IF prog = "key" THEN [HashInputs -> Hashes]
                   ELSE {[value \in HashInputs |-> 0]})
    /\ id_to_key_map = {}

Init == prog = "reactive" /\ InitStore

InitUndo == prog = "reversible" /\ InitStore

InitUndoReaction == prog = "reversible_reaction" /\ InitStore

\* let a = a();  the client calls a generated accessor function.
CallAccessor ==
    \E k \in Atoms(prog) \cup Reactions(prog) :
        Do(Call("accessor", k, None), "accessor", k)

\* Atom::set, Atom::inert_set, Atom::update, Atom::remove on a handle.
Atom_set ==
    \E k \in PlainAtoms \cap rx : \E v \in PlainVals :
        Do(Call("set_atom_state_with_id", k, v), "set", k)

Atom_inert_set ==
    \E k \in PlainAtoms \cap rx : \E v \in PlainVals :
        Do(Call("set_inert_atom_state_with_id", k, v), "inert_set", k)

Atom_update ==
    \E k \in PlainAtoms \cap rx : \E v \in PlainVals :
        Do(Call("update_atom_state_with_id", k, v), "update", k)

Atom_remove ==
    \E k \in PlainAtoms \cap rx :
        Do(Call("remove_reactive_state_with_id", k, None), "remove", k)

\* Atom::get, soft_get, get_with and try_read_reactive_state_with_id on the
\* key of a handle, and Atom::update and get_with with a closure that reads
\* the same atom.
Atom_get ==
    \E k \in PlainAtoms \cap rx : Do(Call("get", k, None), "get", k)

Atom_soft_get ==
    \E k \in PlainAtoms \cap rx : Do(Call("soft_get", k, None), "soft_get", k)

Atom_get_with ==
    \E k \in PlainAtoms \cap rx : \E f \in NestedReads \cup {"clone"} :
        Do(Call("read_reactive_state_with_id", k, f), "get_with", k)

Atom_try_read ==
    \E k \in PlainAtoms \cap rx :
        Do(Call("try_read_reactive_state_with_id", k, None), "try_read", k)

Atom_update_reading ==
    \E k \in PlainAtoms \cap rx : \E f \in NestedReads :
        Do(Call("update_atom_state_with_id_reading", k, f), "update_reading", k)

\* Atom::update and Atom::get_with with a closure that writes the same atom.
Atom_update_writing ==
    \E k \in PlainAtoms \cap rx : \E f \in NestedWrites : \E v \in PlainVals :
        Do(Call("update_atom_state_with_id_writing", k, <<f, v>>), "update_writing", k)

Atom_get_with_writing ==
    \E k \in PlainAtoms \cap rx : \E f \in NestedWrites :
        Do(Call("read_reactive_state_with_id", k, f), "get_with_writing", k)

\* ReversibleAtom::set, inert_set, update, remove on a handle.
ReversibleAtom_set ==
    \E k \in ReversibleAtoms \cap rx : \E v \in WriteVals(k) :
        Do(Call("set_atom_reversible_state_with_id", k, v), "set", k)

ReversibleAtom_inert_set ==
    \E k \in ReversibleAtoms \cap rx : \E v \in WriteVals(k) :
        Do(Call("set_inert_atom_reversible_state_with_id", k, v), "inert_set", k)

ReversibleAtom_update ==
    \E k \in ReversibleAtoms \cap rx : \E v \in WriteVals(k) :
        Do(Call("update_atom_reversible_state_with_id", k, v), "update", k)

ReversibleAtom_remove ==
    \E k \in ReversibleAtoms \cap rx :
        Do(Call("remove_reactive_reversible_state_with_id", k, None), "remove", k)

\* global_reverse_queue().travel_backwards() and .travel_forwards(), which
\* the programs with reversible atoms call.
TravelBackwards ==
    /\ prog # "reactive"
    /\ Do(Call("travel_backwards", QueueKey, None), "travel_backwards", QueueKey)

TravelForwards ==
    /\ prog # "reactive"
    /\ Do(Call("travel_forwards", QueueKey, None), "travel_forwards", QueueKey)

\* global_reverse_queue().travel_to_cursor(cursor)
TravelToCursor ==
    \E cursor \in 0..MaxCursor :
        /\ prog = "travel"
        /\ Do(Call("travel_to_cursor", QueueKey, cursor), "travel_to_cursor", QueueKey)

Next ==
    \/ CallAccessor
    \/ Atom_set
    \/ Atom_inert_set
    \/ Atom_update
    \/ Atom_remove

NextUndo ==
    \/ CallAccessor
    \/ ReversibleAtom_set
    \/ ReversibleAtom_inert_set
    \/ ReversibleAtom_update
    \/ ReversibleAtom_remove
    \/ TravelBackwards
    \/ TravelForwards

Spec == Init /\ [][Next]_vars

SpecUndo == InitUndo /\ [][NextUndo]_vars

\* The program over a, b and a_b_subtraction that also reads its atoms.
InitRead == prog = "read" /\ InitStore

NextRead ==
    \/ Next
    \/ Atom_get
    \/ Atom_soft_get
    \/ Atom_get_with
    \/ Atom_try_read
    \/ Atom_update_reading

SpecRead == InitRead /\ [][NextRead]_vars

\* The same program with closures that write the atom they are run on.
NextNested ==
    \/ Next
    \/ Atom_update_writing
    \/ Atom_get_with_writing

SpecNested == InitRead /\ [][NextNested]_vars

\* The program with reactions that observe reactions.
InitGraph == prog = "graph" /\ InitStore

SpecGraph == InitGraph /\ [][Next]_vars

\* The reversible program that also jumps to a cursor.
InitTravel == prog = "travel" /\ InitStore

NextTravel == NextUndo \/ TravelToCursor

SpecTravel == InitTravel /\ [][NextTravel]_vars

\* The reversible program with its reaction: like test_reversible_reaction,
\* it removes no atom.
NextUndoReaction ==
    \/ CallAccessor
    \/ ReversibleAtom_set
    \/ ReversibleAtom_inert_set
    \/ ReversibleAtom_update
    \/ TravelBackwards
    \/ TravelForwards

\* The plain program and the reversible program with its reaction.
NextAll == Next \/ NextUndoReaction

SpecAll == (Init \/ InitUndoReaction) /\ [][NextAll]_vars

\* The program that removes through its handles: the atoms a and
\* a_reversible and the reaction r1 over a.
InitHandle == prog = "handle" /\ InitStore

\* handle.remove(), handle.delete() and handle.state_exists() on a handle the
\* client holds.
Handle_remove ==
    \E k \in (Atoms(prog) \cup Reactions(prog)) \cap rx :
        Do(Call("remove", k, None), "remove", k)

Handle_delete ==
    \E k \in (Atoms(prog) \cup Reactions(prog)) \cap rx :
        Do(Call("delete", k, None), "delete", k)

Handle_state_exists ==
    \E k \in (Atoms(prog) \cup Reactions(prog)) \cap rx :
        Do(Call("state_exists", k, None), "state_exists", k)

\* handle.reset_to_default() on the handle of an atom.
Handle_reset_to_default ==
    \E k \in Atoms(prog) \cap rx :
        Do(Call("reset_to_default", k, None), "reset_to_default", k)

\* a().remove(), a().delete() and a().state_exists(): the method is called on
\* the handle a fresh call of the accessor function returns.
AccessorMethods == {"remove", "delete", "state_exists"}

Accessor_call ==
    \E k \in Atoms(prog) \cup Reactions(prog) : \E method \in AccessorMethods :
        Do(Call("call_on_accessor", k, method), "call_on_accessor", k)

NextHandle ==
    \/ CallAccessor
    \/ Atom_set
    \/ ReversibleAtom_set
    \/ Handle_remove
    \/ Handle_delete
    \/ Handle_state_exists
    \/ Handle_reset_to_default
    \/ Accessor_call

SpecHandle == InitHandle /\ [][NextHandle]_vars

\* The program with a reaction that starts suspended: the client triggers
\* it, asks whether it has a value and reads it.
InitSuspended == prog = "suspended" /\ InitStore

Reaction_force_trigger ==
    \E k \in Reactions(prog) \cap rx :
        Do(Call("force_trigger", k, None), "force_trigger", k)

Reaction_soft_get ==
    \E k \in Reactions(prog) \cap rx :
        Do(Call("soft_get", k, None), "soft_get", k)

NextSuspended ==
    \/ CallAccessor
    \/ Atom_set
    \/ Atom_update
    \/ Atom_remove
    \/ Reaction_force_trigger
    \/ Reaction_soft_get
    \/ Handle_state_exists

SpecSuspended == InitSuspended /\ [][NextSuspended]_vars

\* The program with a reaction whose body fails: r1, r2 and `failing` all
\* observe a.
InitFailing == prog = "failing" /\ InitStore

NextFailing ==
    \/ CallAccessor
    \/ Atom_set
    \/ Atom_update

SpecFailing == InitFailing /\ [][NextFailing]_vars

\* The program whose reactions read a twice and read with observe_with, get
\* and get_with; the client also calls observe and observe_with itself,
\* outside every reaction.
InitObserve == prog = "observe" /\ InitStore

Atom_observe ==
    \E k \in PlainAtoms \cap rx : Do(Call("observe", k, None), "observe", k)

Atom_observe_with ==
    \E k \in PlainAtoms \cap rx :
        Do(Call("observe_with", k, "clone"), "observe_with", k)

NextObserve ==
    \/ CallAccessor
    \/ Atom_set
    \/ Atom_inert_set
    \/ Atom_update
    \/ Atom_remove
    \/ Atom_observe
    \/ Atom_observe_with

SpecObserve == InitObserve /\ [][NextObserve]_vars

\* The program with a chain and a sibling over a (a -> r1 -> r1_next,
\* a -> r2) and with gate, whose body declares late when a is not 0.
InitOrder == prog = "order" /\ InitStore

NextOrder ==
    \/ CallAccessor
    \/ Atom_set
    \/ Atom_update

SpecOrder == InitOrder /\ [][NextOrder]_vars

\* The program with ping and pong over a.
InitCycle == prog = "cycle" /\ InitStore

NextCycle ==
    \/ CallAccessor
    \/ Atom_set
    \/ Atom_inert_set
    \/ Atom_update
    \/ Reaction_force_trigger

SpecCycle == InitCycle /\ [][NextCycle]_vars

\* The program that only declares: every call of a generated accessor
\* function starts with
\* let __id = return_key_for_type_and_insert_if_required((CallSite::here(), args)).
InitKey == prog = "key" /\ InitStore

ResolveKey ==
    \E value \in HashInputs :
       \E key \in {return_key_for_type_and_insert_if_required(
                        hasher, id_to_key_map, value)} :
          /\ id_to_key_map' = insert_if_required(id_to_key_map, key)
          /\ last' = [op |-> "return_key_for_type_and_insert_if_required",
                      key |-> "", arg |-> value, prev |-> None, cut |-> 0,
                      fresh |-> key \notin id_to_key_map, ret |-> Some(key),
                      evals |-> <<>>]
          /\ UNCHANGED <<prog, vals, rx, ctx, deps, queue, failure, observed,
                         trace, hasher>>

NextKey == ResolveKey

SpecKey == InitKey /\ [][NextKey]_vars

\* The programs of test_on_update and test_on_update_reaction: the counter c
\* with count_print_when_update over a, or with
\* count_subtraction_when_update over a_b_subtraction.
InitOnUpdateAtom == prog = "on_update_atom" /\ InitStore

InitOnUpdateReaction == prog = "on_update_reaction" /\ InitStore

NextOnUpdate ==
    \/ CallAccessor
    \/ Atom_set
    \/ Atom_update

SpecOnUpdate ==
    (InitOnUpdateAtom \/ InitOnUpdateReaction) /\ [][NextOnUpdate]_vars

----------------------------------------------------------------------------
(* Propagation and the dependency graph.                                   *)

\* The value the body of reaction r yields on the stored values v.
BodyOn(r, v) ==
    IF r = "cond" THEN (IF Unwrap(v["a"]) # 0 THEN Unwrap(v["b"]) ELSE 0)
    ELSE IF r = "a_b_subtraction" THEN Unwrap(v["a"]) - Unwrap(v["b"])
    ELSE IF r \in {"r1", "r1_suspended"} THEN Unwrap(v["a"]) + 1
    ELSE IF r = "r2" THEN Unwrap(v["a"]) * 2
    ELSE IF r = "r3" THEN Unwrap(v["r1"]) + Unwrap(v["r2"])
    ELSE IF r = "r1_next" THEN Unwrap(v["r1"]) * 10
    ELSE IF r \in CountReactions THEN Unwrap(v["c"])
    ELSE IF r \in FailingReactions THEN Unwrap(v["a"])
    ELSE Unwrap(v["a_reversible"]) - Unwrap(v["b_reversible"])

\* The number of times the RxFunc of key k ran during the last call.
TimesRun(k, t) == Cardinality({i \in 1..Len(t) : t[i] = k})

\* The producer keys that have a dependency edge to r.
EdgesTo(r) == {s \in AllKeys : r \in Range(deps[s])}

\* C1: when a live write (Atom set or update) to an atom completes, every
\* reaction that observed the atom in its most recent evaluation holds the
\* value its body yields on the atoms' current stored values.
C1_LiveWriteRefreshesObservers ==
    [][(last'.op \in {"set", "update"} /\ failure' = "none") =>
          \A r \in ReactionKeys :
              last'.key \in observed[r] => vals'[r] = Some(BodyOn(r, vals'))]_vars

\* D = A - B after set A=40, set B=10: D holds 30, recomputed by the write to B.
C1_Witness ==
    /\ last.op = "set" /\ last.key = "b"
    /\ vals["a"] = Some(40) /\ vals["b"] = Some(10)
    /\ vals["a_b_subtraction"] = Some(30)
    /\ "a_b_subtraction" \in Range(trace)

\* C2: an inert write to an atom changes the atom's stored value and
\* recomputes no reaction: no reaction's body runs and every reaction's
\* stored value is the one it had before the write.
C2_InertWriteRecomputesNothing ==
    [][(last'.op = "inert_set" /\ failure' = "none") =>
          /\ vals'[last'.key] = Some(last'.arg)
          /\ \A r \in ReactionKeys :
                 TimesRun(r, trace') = 0 /\ vals'[r] = vals[r]]_vars

\* D = A - B holds 30 computed from A=40, B=10; B was then inertly set to 0.
C2_Witness ==
    /\ last.op = "inert_set" /\ last.key = "b"
    /\ vals["a"] = Some(40) /\ vals["b"] = Some(0)
    /\ "b" \in observed["a_b_subtraction"]
    /\ vals["a_b_subtraction"] = Some(30)

\* C3: when the most recent evaluation of an evaluated reaction R did not
\* read atom B, a live write to B does not re-run R.
C3_UnreadAtomDoesNotTrigger ==
    [][(last'.op \in {"set", "update"} /\ failure' = "none") =>
          \A r \in ReactionKeys :
              (ctx[r] # None /\ last'.key \notin observed[r])
                  => TimesRun(r, trace') = 0]_vars

\* C4: after every completed evaluation of a reaction R, the producer keys
\* with a dependency edge to R are exactly the keys R observed in that
\* evaluation.
C4_EdgesEqualObserved ==
    \A r \in ReactionKeys : ctx[r] # None => EdgesTo(r) = observed[r]

----------------------------------------------------------------------------
(* The undo queue.                                                         *)

HasQueue == queue # None
Cursor == Unwrap(queue).cursor
Commands == Unwrap(queue).commands

\* The stored values once the undo closure of command c has run.
UndoOn(c, v) ==
    IF c.reverse_cmd.op = "set_inert"
    THEN [v EXCEPT ![c.reverse_cmd.key] = c.reverse_cmd.val]
    ELSE [v EXCEPT ![c.reverse_cmd.key] = None]

\* C5, for one write: travel_backwards called right after a reversible write
\* (set or update) to K completes and leaves K with the value it had before
\* the write.
C5_UndoRestoresPreviousValue ==
    [][(failure = "none" /\ last.op \in {"set", "update"}
          /\ last.key \in ReversibleAtoms /\ last'.op = "travel_backwards")
       => (failure' = "none" /\ vals'[last.key] = last.prev)]_vars

\* C6: a reversible write (set or update) made when cursor < len keeps the
\* commands below the cursor, puts its own command at the cursor and advances
\* the cursor by one; whatever follows was pushed during the write (an atom
\* created by a reaction body), so no discarded command is left to redo.
C6_WriteDiscardsRedoBranch ==
    [][(IF last'.op \in {"set", "update"} /\ last'.key \in ReversibleAtoms
           /\ failure' = "none" /\ HasQueue
        THEN Cursor < Len(Commands) ELSE FALSE)
       => /\ Cursor' = Cursor + 1
          /\ Len(Commands') >= Cursor'
          /\ SubSeq(Commands', 1, Cursor) = SubSeq(Commands, 1, Cursor)
          /\ Commands'[Cursor'].do_cmd.key = last'.key
          /\ Commands'[Cursor'].do_cmd.val = Some(last'.arg)
          /\ \A i \in (Cursor' + 1)..Len(Commands') :
                 Commands'[i].do_cmd.op = "func"]_vars

\* A write at cursor 1 discarded a command and left its own as the last one.
C6_Witness ==
    /\ failure = "none" /\ HasQueue
    /\ last.op \in {"set", "update"} /\ last.cut > 0
    /\ Cursor = 2 /\ Len(Commands) = 2
    /\ Commands[2].do_cmd.key = last.key

\* C7: in every reachable state of the undo queue, 0 <= cursor <= commands.len().
C7_CursorWithinCommands ==
    IF HasQueue THEN 0 <= Cursor /\ Cursor <= Len(Commands) ELSE TRUE

\* C8: every reversible mutation (set, inert_set, update, remove) started at
\* cursor c leaves commands.len() = c + 1 and cursor = c + 1.
C8_MutationRecordsOneCommand ==
    [][(last'.op \in {"set", "inert_set", "update", "remove"}
          /\ last'.key \in ReversibleAtoms /\ failure' = "none" /\ HasQueue)
       => (Len(Commands') = Cursor + 1 /\ Cursor' = Cursor + 1)]_vars

\* C9: when travel_backwards undoes, or travel_forwards redoes, a write to a
\* reversible atom A, every reaction that depends on A is recomputed exactly
\* once and holds the value its body yields on the restored values.
C9_HistoryStepPropagates ==
    [][(IF last'.op \in {"travel_backwards", "travel_forwards"}
           /\ failure' = "none" /\ HasQueue /\ HasQueue'
        THEN Cursor' # Cursor ELSE FALSE)
       => LET c == Commands[IF Cursor' < Cursor THEN Cursor ELSE Cursor + 1]
          IN (/\ c.do_cmd.op \in {"set", "set_inert"}
              /\ \A k \in ReversibleAtoms : vals'[k] # None)
             => \A r \in ReactionKeys :
                    c.do_cmd.key \in observed[r]
                        => /\ TimesRun(r, trace') = 1
                           /\ vals'[r] = Some(BodyOn(r, vals'))]_vars

\* C10: travel_backwards with cursor c > 0 runs the undo closure of
\* commands[c-1] and sets the cursor to c-1; with cursor 0 it leaves the
\* cursor, the commands and all atom values unchanged.
C10_TravelBackwardsOneStep ==
    [][(last'.op = "travel_backwards" /\ HasQueue)
       => IF Cursor > 0
          THEN /\ failure' = "none"
               /\ Cursor <= Len(Commands)
               /\ queue' = Some([commands |-> Commands, cursor |-> Cursor - 1])
               /\ vals' = UndoOn(Commands[Cursor], vals)
          ELSE failure' = "none" /\ queue' = queue /\ vals' = vals]_vars

\* The stored values once the do closure of command c has run, in a program
\* without reactions.
DoOn(c, v) ==
    IF c.do_cmd.op \in {"set", "set_inert"}
    THEN [v EXCEPT ![c.do_cmd.key] = c.do_cmd.val]
    ELSE IF c.do_cmd.op = "func"
    THEN [v EXCEPT ![c.do_cmd.key] = Some(InitialValue)]
    ELSE [v EXCEPT ![c.do_cmd.key] = None]

\* C11: travel_forwards with cursor c < commands.len() runs the do closure of
\* commands[c] once (the values are those the closure leaves, and an
\* initializer runs once) and sets the cursor to c+1; with cursor =
\* commands.len() it runs no closure and leaves the cursor, the commands and all
\* atom values unchanged.
C11_TravelForwardsOneStep ==
    [][(last'.op = "travel_forwards" /\ HasQueue)
       => IF Cursor < Len(Commands)
          THEN /\ failure' = "none"
               /\ queue' = Some([commands |-> Commands, cursor |-> Cursor + 1])
               /\ vals' = DoOn(Commands[Cursor + 1], vals)
               /\ Commands[Cursor + 1].do_cmd.op = "func"
                      => TimesRun(Commands[Cursor + 1].do_cmd.key, trace') = 1
          ELSE Cursor = Len(Commands)
                  => /\ failure' = "none" /\ queue' = queue
                     /\ vals' = vals /\ trace' = <<>>]_vars

\* A redo of a discarded-and-rewritten history: the set of a_reversible to 2
\* was undone and travel_forwards applied it again.
C11_Witness ==
    /\ last.op = "travel_forwards" /\ failure = "none" /\ HasQueue
    /\ Cursor = 2 /\ Len(Commands) = 2
    /\ Commands[2].do_cmd = Cmd("set", "a_reversible", Some(2))
    /\ vals["a_reversible"] = Some(2)

\* The machine after n single steps of travel_backwards (back) or
\* travel_forwards from the current state.
Stepwise(back, n) ==
    Run(Then(Machine, [i \in 1..n |->
                          Call(IF back THEN "travel_backwards" ELSE "travel_forwards",
                               QueueKey, None)]))

\* C12: travel_to_cursor(target) with 0 < target < commands.len() returns with
\* cursor = target and with the atom values that repeated single
\* travel_backwards (target < cursor) or travel_forwards (target > cursor)
\* steps to the target give.
C12_TravelToCursorAsSteps ==
    [][(IF last'.op = "travel_to_cursor" /\ HasQueue
        THEN 0 < last'.arg /\ last'.arg < Len(Commands) ELSE FALSE)
       => LET target == last'.arg
              steps == IF target < Cursor THEN Stepwise(TRUE, Cursor - target)
                       ELSE Stepwise(FALSE, target - Cursor)
          IN /\ failure' = "none"
             /\ queue' # None
             /\ Cursor' = target
             /\ vals' = steps.vals]_vars

\* C13: travel_to_cursor with target 0 or target >= commands.len() fails on
\* an assertion and runs no command: the cursor, the commands and all atom
\* values are unchanged.
C13_TravelToCursorRejects ==
    [][(IF last'.op = "travel_to_cursor" /\ HasQueue
        THEN last'.arg = 0 \/ last'.arg >= Len(Commands) ELSE FALSE)
       => /\ failure' \in {"assertion failed: cursor > 0",
                           "assertion failed: cursor < self.len()"}
          /\ queue' = queue
          /\ vals' = vals
          /\ trace' = <<>>]_vars

\* travel_to_cursor(2) on two commands with the cursor at 1 was rejected.
C13_Witness ==
    /\ last.op = "travel_to_cursor" /\ last.arg = 2
    /\ failure = "assertion failed: cursor < self.len()"
    /\ HasQueue /\ Len(Commands) = 2 /\ Cursor = 1
    /\ vals["a_reversible"] = Some(1)

----------------------------------------------------------------------------
(* Propagation through reactions that observe reactions.                   *)

\* C14: in a linear chain a -> r1 -> r1_next, one live write to a runs the body
\* of r1 once and then the body of r1_next once, so r1_next is computed from
\* the new value of r1.
C14_ChainRunsEachOnceInOrder ==
    [][(/\ last'.op \in {"set", "update"} /\ last'.key = "a" /\ failure' = "none"
        /\ deps["a"] = <<"r1">> /\ deps["r1"] = <<"r1_next">>
        /\ deps["r1_next"] = <<>>)
       => /\ trace' = <<"r1", "r1_next">>
          /\ vals'["r1"] = Some(Unwrap(vals'["a"]) + 1)
          /\ vals'["r1_next"] = Some(Unwrap(vals'["r1"]) * 10)]_vars

\* a was set to 10 in the chain: r1 = 11 and r1_next = 110.
C14_Witness ==
    /\ last.op = "set" /\ last.key = "a" /\ failure = "none"
    /\ deps["a"] = <<"r1">> /\ deps["r1"] = <<"r1_next">>
    /\ trace = <<"r1", "r1_next">>
    /\ vals["a"] = Some(10) /\ vals["r1"] = Some(11) /\ vals["r1_next"] = Some(110)

\* C15: in a diamond a -> {r1, r2} -> r3, one live write to a runs the body of
\* r3 twice, once per path (and r1 and r2 once each), and r3 ends with the
\* value computed from the final values of r1 and r2.
C15_DiamondRunsJoinTwice ==
    [][(/\ last'.op \in {"set", "update"} /\ last'.key = "a" /\ failure' = "none"
        /\ {"r1", "r2"} \subseteq Range(deps["a"])
        /\ "r3" \in Range(deps["r1"]) /\ "r3" \in Range(deps["r2"]))
       => /\ TimesRun("r3", trace') = 2
          /\ TimesRun("r1", trace') = 1 /\ TimesRun("r2", trace') = 1
          /\ vals'["r3"] = Some(Unwrap(vals'["r1"]) + Unwrap(vals'["r2"]))]_vars

\* a was set to 10 in the diamond: r3 ran twice and holds 11 + 20.
C15_Witness ==
    /\ last.op = "set" /\ last.key = "a" /\ failure = "none"
    /\ deps["a"] = <<"r1", "r2">> /\ deps["r1"] = <<"r3">> /\ deps["r2"] = <<"r3">>
    /\ trace = <<"r1", "r3", "r2", "r3">>
    /\ vals["a"] = Some(10) /\ vals["r3"] = Some(31)

----------------------------------------------------------------------------
(* Reads.                                                                  *)

\* The failures of a read or an update that finds no value under the key.
AbsentKeyFailures ==
    {"state should be present",
     "You are trying to read a type state that doesnt exist in this context!",
     "You are trying to update a type state that doesnt exist in this context!"}

\* C16: while update(K, f) or get_with(K, f) runs f on a key that holds a
\* value, a read of K from inside f (handle get, get_with, or the accessor
\* function followed by get) fails with the absent-key failure and returns
\* no value.
C16_NestedReadFails ==
    [][(/\ last'.op \in {"update_reading", "get_with"}
        /\ last'.arg \in NestedReads
        /\ vals[last'.key] # None)
       => (failure' \in AbsentKeyFailures /\ last'.ret = None)]_vars

\* C17: on a key that holds no value, get, get_with and update fail and
\* return nothing, soft_get and try_read_reactive_state_with_id return None
\* without failing, and the key holds no value afterwards.
C17_AbsentKeyReads ==
    [][(last'.key \in PlainAtoms /\ vals[last'.key] = None)
       => /\ last'.op \in {"get", "get_with", "update", "update_reading"}
                => /\ failure' \in AbsentKeyFailures
                   /\ last'.ret = None
                   /\ vals'[last'.key] = None
          /\ last'.op \in {"soft_get", "try_read"}
                => /\ failure' = "none"
                   /\ last'.ret = Some(None)
                   /\ vals'[last'.key] = None]_vars

\* soft_get on the removed atom a returned None and a is still absent.
C17_Witness ==
    /\ last.op = "soft_get" /\ last.key = "a" /\ last.ret = Some(None)
    /\ failure = "none" /\ "a" \in rx /\ vals["a"] = None

----------------------------------------------------------------------------
(* Undo of creation and of each reversible mutation.                       *)

\* C18: right after the first call of a reversible atom's accessor for K, one
\* travel_backwards undoes the creation: K holds no value.
C18_CreationIsUndoable ==
    [][(/\ failure = "none" /\ last.op = "accessor"
        /\ last.key \in ReversibleAtoms /\ last.fresh
        /\ last'.op = "travel_backwards")
       => (failure' = "none" /\ vals'[last.key] = None)]_vars

\* C19: right after a reversible mutation of K (set, inert_set, update,
\* remove), one travel_backwards restores K to its state before the mutation:
\* the old value, or absent if K held none.
C19_UndoRestoresPreMutationState ==
    [][(/\ failure = "none"
        /\ last.op \in {"set", "inert_set", "update", "remove"}
        /\ last.key \in ReversibleAtoms
        /\ last'.op = "travel_backwards")
       => (failure' = "none" /\ vals'[last.key] = last.prev)]_vars

----------------------------------------------------------------------------
(* Construction.                                                           *)

----------------------------------------------------------------------------
(* Removal through a handle.                                               *)

\* C21: remove and delete on an Atom, ReversibleAtom or Reaction handle never
\* fail; remove returns the stored value, or None if the key holds none;
\* after either the key holds no value, and a state_exists made on the same
\* handle right after returns false.
C21_RemoveReturnsValue ==
    [][/\ last'.op \in {"remove", "delete"}
          => /\ failure' = "none"
             /\ vals'[last'.key] = None
             /\ last'.op = "remove" => last'.ret = Some(vals[last'.key])
       /\ (last.op \in {"remove", "delete"} /\ last'.op = "state_exists"
              /\ last'.key = last.key)
          => (failure' = "none" /\ last'.ret = Some(FALSE))]_vars

\* remove on each kind of handle has returned a value, remove has returned
\* None, and state_exists has answered false after a remove.
C21_Witness ==
    /\ last.op = "state_exists" /\ last.key = "r1" /\ last.ret = Some(FALSE)
    /\ vals["r1"] = None /\ vals["a"] = None /\ vals["a_reversible"] = None
    /\ {"a", "a_reversible", "r1"} \subseteq rx

\* C23: reset_to_default on an atom leaves the atom with its initial value,
\* whatever it held before, and every reaction that depends on the atom has
\* been recomputed and holds the value of its body on the initial value.
C23_ResetToDefault ==
    [][last'.op = "reset_to_default"
       => /\ failure' = "none"
          /\ vals'[last'.key] = Some(InitialValue)
          /\ \A r \in Range(deps[last'.key]) :
                 /\ r \in Range(trace')
                 /\ vals'[r] = Some(BodyOn(r, vals'))]_vars

\* a was set to 40 and reset: a holds 0 and r1, which depends on a, holds 1.
C23_Witness ==
    /\ last.op = "reset_to_default" /\ last.key = "a"
    /\ vals["a"] = Some(InitialValue) /\ vals["r1"] = Some(1)
    /\ trace = <<"a", "r1">>

\* C22: after a().remove() or a().delete() made through the accessor function
\* of an atom, the call a().state_exists() that follows returns false.
C22_AccessorSeesRemoval ==
    [][(/\ last.op = "call_on_accessor" /\ last.arg \in {"remove", "delete"}
        /\ last.key \in AtomKeys
        /\ last'.op = "call_on_accessor" /\ last'.arg = "state_exists"
        /\ last'.key = last.key)
       => last'.ret = Some(FALSE)]_vars

\* C29: after a reaction R is removed through its handle, the next live write
\* to an atom R had observed neither runs R's body nor re-creates R's value,
\* and no dependency edge leads to R.
C29_RemovedReactionStaysRemoved ==
    [][(/\ last.op \in {"remove", "delete"} /\ last.key \in Reactions(prog)
        /\ last'.op = "set" /\ last'.key \in observed[last.key])
       => /\ last.key \notin Range(trace')
          /\ vals'[last.key] = None
          /\ EdgesTo(last.key) = {}]_vars

----------------------------------------------------------------------------
(* on_update.                                                              *)

\* The atom or reaction whose updates the reaction C counts.
Watched(C) == IF C = "count_print_when_update" THEN "a" ELSE "a_b_subtraction"

\* C24: a reaction C whose body calls X.on_update(f), f incrementing the
\* counter c that C returns, runs f once per evaluation of its body: the
\* initial evaluation of C leaves c and C at 1, and every live write that
\* changes X adds one to c and leaves C equal to c, so that C reads k + 1
\* after k such writes.
C24_OnUpdateRunsEveryEvaluation ==
    [][\A C \in Reactions(prog) \cap CountReactions :
          /\ (last'.op = "accessor" /\ last'.key = C /\ vals[C] = None)
                => (vals'["c"] = Some(1) /\ vals'[C] = Some(1))
          /\ (/\ last'.op \in {"set", "update"} /\ vals[C] # None
              /\ vals'[Watched(C)] # vals[Watched(C)])
                => /\ vals'["c"] = Some(Unwrap(vals["c"]) + 1)
                   /\ vals'[C] = vals'["c"]]_vars

----------------------------------------------------------------------------
(* Key resolution.                                                         *)

----------------------------------------------------------------------------
(* Reactions that start suspended.                                         *)

\* C26: until its first force_trigger a reaction registered with
\* reaction_start_suspended has not run its body and holds no value, whatever
\* the client calls (its accessor again, writes to the atoms of its body):
\* state_exists returns false and soft_get returns None; the force_trigger
\* runs the body once and leaves the body's value under the key.
C26_SuspendedUntilTriggered ==
    [][\A r \in Reactions(prog) \cap SuspendedReactions :
          /\ (ctx[r] = None /\ ~(last'.op = "force_trigger" /\ last'.key = r))
                => /\ r \notin Range(trace')
                   /\ vals'[r] = None /\ ctx'[r] = None
                   /\ (last'.op = "state_exists" /\ last'.key = r)
                         => last'.ret = Some(FALSE)
                   /\ (last'.op = "soft_get" /\ last'.key = r)
                         => last'.ret = Some(None)
          /\ (last'.op = "force_trigger" /\ last'.key = r)
                => /\ failure' = "none"
                   /\ TimesRun(r, trace') = 1
                   /\ vals'[r] = Some(BodyOn(r, vals'))]_vars

\* After accessor calls and a write of 40 to a, the first trigger left 41
\* under the key.
C26_Witness ==
    /\ last.op = "force_trigger" /\ last.key = "r1_suspended"
    /\ trace = <<"r1_suspended">>
    /\ vals["a"] = Some(40) /\ vals["r1_suspended"] = Some(41)

----------------------------------------------------------------------------
(* Termination of propagation.                                             *)

\* The keys that the edges d lead to from the keys S.
RECURSIVE ReachableFrom(_, _)
ReachableFrom(d, S) ==
    LET T == S \cup UNION {Range(d[k]) : k \in S}
    IN IF T = S THEN S ELSE ReachableFrom(d, T)

\* The recomputes of a depth-first walk of the edges d from the dependents
\* seq: each dependent, then the walk from it, then the rest.
RECURSIVE DepthFirstWalk(_, _)
DepthFirstWalk(d, seq) ==
    IF seq = <<>> THEN <<>>
    ELSE <<Head(seq)>> \o DepthFirstWalk(d, d[Head(seq)])
           \o DepthFirstWalk(d, Tail(seq))

\* C27: in the acyclic graphs over a, r1, r2, r3 and r1_next, whose bodies
\* write nothing, a live write (set, or update of a key that holds a value)
\* completes without failure after the finitely many recomputes of the
\* depth-first walk from the written key, and every reaction reachable from
\* the key has been recomputed.
C27_PropagationCompletes ==
    [][(/\ last'.op \in {"set", "update"}
        /\ last'.op = "update" => vals[last'.key] # None)
       => /\ failure' = "none"
          /\ trace' = DepthFirstWalk(deps, deps[last'.key])
          /\ ReachableFrom(deps, {last'.key}) \ {last'.key} \subseteq Range(trace')
          /\ deps' = deps]_vars

\* A write to a, with the chain and the diamond declared, recomputed all
\* four reactions in five recomputes.
C27_Witness ==
    /\ last.op \in {"set", "update"} /\ last.key = "a" /\ failure = "none"
    /\ ReachableFrom(deps, {"a"}) = {"a", "r1", "r2", "r3", "r1_next"}
    /\ Range(trace) = {"r1", "r2", "r3", "r1_next"} /\ Len(trace) = 5

----------------------------------------------------------------------------
(* Failure of a reaction body during propagation.                          *)

\* C28: when the body of a dependent of a fails during the propagation pass
\* of a live write to a, the written atom holds its new value, the
\* dependents walked before the failing one have been recomputed and hold
\* the values of their bodies on the new value, and the failing one and those
\* after it in the walk have not been recomputed and hold their old values.
C28_FailureAbortsWithoutRollback ==
    [][(last'.op \in {"set", "update"} /\ failure' # "none")
       => /\ vals'[last'.key] = Some(last'.arg)
          /\ \E i \in 1..Len(deps[last'.key]) :
                LET dependents == deps[last'.key]
                IN /\ dependents[i] \in FailingReactions
                   /\ vals'[dependents[i]] = vals[dependents[i]]
                   /\ \A j \in 1..(i - 1) :
                         /\ dependents[j] \in Range(trace')
                         /\ vals'[dependents[j]]
                              = Some(BodyOn(dependents[j], vals'))
                   /\ \A j \in (i + 1)..Len(dependents) :
                         /\ dependents[j] \notin Range(trace')
                         /\ vals'[dependents[j]] = vals[dependents[j]]]_vars

\* a was 10 and was set to 40 with the dependents r1, failing, r2: a holds
\* 40, r1 holds 41, failing and r2 hold the values they had for a = 10.
C28_Witness ==
    /\ last.op = "set" /\ last.key = "a" /\ failure = "a is 40"
    /\ deps["a"] = <<"r1", "failing", "r2">>
    /\ trace = <<"r1", "failing">>
    /\ vals["a"] = Some(40) /\ vals["r1"] = Some(41)
    /\ vals["failing"] = Some(10) /\ vals["r2"] = Some(20)

----------------------------------------------------------------------------
(* The frame of a history step.                                            *)

\* The key written by the command that the travel step `op` undoes or redoes
\* in the current state, "" if it undoes or redoes none.
StepKey(op) ==
    IF ~HasQueue THEN ""
    ELSE IF op = "travel_backwards"
    THEN (IF Cursor \in 1..Len(Commands) THEN Commands[Cursor].reverse_cmd.key
          ELSE "")
    ELSE (IF Cursor < Len(Commands) THEN Commands[Cursor + 1].do_cmd.key ELSE "")

\* C30: one travel_backwards or travel_forwards changes the stored value of
\* no reversible atom other than the key of the command it undoes or redoes
\* (an atom that held no value holds none afterwards).
C30_TravelStepFrame ==
    [][last'.op \in {"travel_backwards", "travel_forwards"}
       => \A k \in ReversibleAtoms :
             k # StepKey(last'.op) => vals'[k] = vals[k]]_vars

----------------------------------------------------------------------------
(* The stored ReactiveContext.                                             *)

\* C33: after every evaluation of a reaction R, the ReactiveContext stored
\* under R's key lists exactly the keys observed in that evaluation.
C33_ContextPersistedEachEvaluation ==
    \A r \in ReactionKeys :
        ctx[r] # None => Range(Unwrap(ctx[r])) = observed[r]

----------------------------------------------------------------------------
(* A reversible update of a key that holds no value.                       *)

\* C39: update on a ReversibleAtom whose key holds no value fails before
\* anything is recorded: the undo queue (commands and cursor) and every
\* stored value are the same as before the call, and no propagation runs.
C39_ReversibleUpdateOfAbsentKey ==
    [][(last'.op = "update" /\ last'.key \in ReversibleAtoms
          /\ vals[last'.key] = None)
       => /\ failure' = "You are trying to update a type state that doesnt exist in this context!"
          /\ queue' = queue
          /\ vals' = vals
          /\ deps' = deps
          /\ trace' = <<>>]_vars

\* a_reversible was removed with commands on the queue, and then updated.
C39_Witness ==
    /\ last.op = "update" /\ last.key = "a_reversible"
    /\ failure # "none"
    /\ vals["a_reversible"] = None
    /\ HasQueue /\ Len(Commands) >= 1 /\ Cursor >= 1

----------------------------------------------------------------------------
(* Termination of travel_to_cursor.                                        *)

\* C36: travel_to_cursor(target) with 0 < target < commands.len() returns,
\* from every starting cursor in 0..commands.len() (the bound of
\* |cursor - target| command invocations is a bound on a call that returns).
C36_TravelToCursorTerminates ==
    [][(IF last'.op = "travel_to_cursor" /\ HasQueue
        THEN 0 < last'.arg /\ last'.arg < Len(Commands) /\ Cursor <= Len(Commands)
        ELSE FALSE)
       => failure' = "none"]_vars

----------------------------------------------------------------------------
(* The command sequence under travel.                                      *)

----------------------------------------------------------------------------
(* Writes from inside the closure of update and get_with.                  *)

\* C38: when the closure passed to update(K, f) or get_with(K, f) sets or
\* inertly sets K while it runs, K holds, when the outer call returns, the
\* value the outer call puts back (what f assigned to its argument for
\* update, the value K held before for get_with), not the nested write's.
C38_NestedWriteIsOverwritten ==
    [][/\ (last'.op = "update_writing" /\ vals[last'.key] # None)
          => (failure' = "none" /\ vals'[last'.key] = Some(last'.arg[2]))
       /\ (last'.op = "get_with_writing" /\ vals[last'.key] # None)
          => (failure' = "none" /\ vals'[last'.key] = vals[last'.key])]_vars

\* a.get_with(|_| a.set(20)) on a = 10 with b = 0: the nested set ran
\* a_b_subtraction on 20, and a holds 10 again.
C38_Witness ==
    /\ last.op = "get_with_writing" /\ last.key = "a" /\ last.arg = "set"
    /\ failure = "none"
    /\ vals["a"] = Some(10) /\ vals["b"] = Some(0)
    /\ trace = <<"a_b_subtraction">> /\ vals["a_b_subtraction"] = Some(20)

----------------------------------------------------------------------------
(* Observing reads.                                                        *)

\* The reads in the body of reaction R, in order, and those of them that
\* observe.
ReadCalls(R) ==
    SelectSeq(Body(R), LAMBDA c : c.op \in {"observe", "observe_with", "get_in_body",
                                            "read_reactive_state_with_id"})

ObserveCalls(R) ==
    SelectSeq(Body(R), LAMBDA c : c.op \in {"observe", "observe_with"})

\* C31: in every evaluation of a reaction R, each observe and observe_with
\* read of a key P appends P to the context's list (a key read twice is
\* listed twice), leaves the edge P -> R and hands back P's stored value; the
\* get and get_with reads hand back the stored value and add neither an entry
\* nor an edge.
C31_ObservingReadsRecord ==
    [][failure' = "none" =>
          \A i \in 1..Len(last'.evals) :
             LET e == last'.evals[i]
                 R == e.key
             IN R \in ObserveReactions =>
                   /\ e.reactive_state_accessors
                        = [j \in 1..Len(ObserveCalls(R)) |-> ObserveCalls(R)[j].key]
                   /\ \A P \in AllKeys :
                         R \in Range(deps'[P]) <=> P \in Range(e.reactive_state_accessors)
                   /\ e.got = [j \in 1..Len(ReadCalls(R)) |->
                                  Unwrap(vals'[ReadCalls(R)[j].key])]]_vars

\* a was set to 10 with b at 20: twice listed a twice and read 10 twice,
\* mixed listed a once and read 10, 20, 20; b has no dependent.
C31_Witness ==
    /\ last.op = "set" /\ last.key = "a" /\ failure = "none"
    /\ Len(last.evals) = 2
    /\ \E i, j \in 1..2 :
          /\ last.evals[i] = [key |-> "twice", reactive_state_accessors |-> <<"a", "a">>,
                              got |-> <<10, 10>>]
          /\ last.evals[j] = [key |-> "mixed", reactive_state_accessors |-> <<"a">>,
                              got |-> <<10, 20, 20>>]
    /\ deps["b"] = <<>> /\ Range(deps["a"]) = {"twice", "mixed"}
    /\ vals["twice"] = Some(20) /\ vals["mixed"] = Some(50)

\* C32: observe called by the client outside every reaction fails with 'No
\* #[reaction] context found' and adds no edge; observe_with called there on
\* a key that holds a value returns the closure's result on that value, adds
\* no edge and leaves the store as it was.
C32_ReadsWithoutContext ==
    [][/\ last'.op = "observe"
          => /\ failure' = "No #[reaction] context found"
             /\ deps' = deps /\ vals' = vals
       /\ (last'.op = "observe_with" /\ vals[last'.key] # None)
          => /\ failure' = "none"
             /\ last'.ret = Some(Unwrap(vals[last'.key]))
             /\ deps' = deps /\ vals' = vals /\ ctx' = ctx
             /\ trace' = <<>>]_vars

\* The client read a = 40 with observe_with while both reactions depended on a.
C32_Witness ==
    /\ last.op = "observe_with" /\ last.key = "a" /\ last.ret = Some(40)
    /\ failure = "none"
    /\ Range(deps["a"]) = {"twice", "mixed"}
    /\ vals["a"] = Some(40)

----------------------------------------------------------------------------
(* The order of propagation.                                               *)

\* C34: a live write to A recomputes depth-first in edge order: with the
\* edges as they stand, the recomputes are those of the walk that takes each
\* dependent of A in turn and walks all that is downstream of it before the
\* next one (R1, R3, R2 for A -> R1 -> R3, A -> R2); a reaction that becomes
\* a dependent of A while the walk of A runs is not visited by that walk: it
\* has run once, when it was declared.
C34_DepthFirstInEdgeOrder ==
    [][(/\ last'.op \in {"set", "update"} /\ failure' = "none"
        /\ last'.op = "update" => vals[last'.key] # None)
       => /\ deps' = deps => trace' = DepthFirstWalk(deps, deps[last'.key])
          /\ \A k \in Range(deps'[last'.key]) \ Range(deps[last'.key]) :
                TimesRun(k, trace') = 1]_vars

\* a was 0 with r1, r2, gate declared and then r1_next; a was set to 10: the
\* walk ran r1, r1_next, r2, gate, and gate's body declared late, which is now
\* the last dependent of a and ran that once.
C34_Witness ==
    /\ last.op = "set" /\ last.key = "a" /\ failure = "none"
    /\ deps["a"] = <<"r1", "r2", "gate", "late">>
    /\ deps["r1"] = <<"r1_next">>
    /\ trace = <<"r1", "r1_next", "r2", "gate", "late">>
    /\ vals["gate"] = Some(11)

----------------------------------------------------------------------------
(* Cycles.                                                                 *)

\* Some key that the edges d lead to from k lies on a cycle of d.
CycleReachable(d, k) ==
    \E x \in ReachableFrom(d, {k}) : x \in ReachableFrom(d, Range(d[x]))

\* C35: when the dependency graph holds a cycle that can be reached from a
\* key, a live write to that key does not return: the propagation recurses
\* without end, over the same reactions again and again.
C35_CycleNeverCompletes ==
    [][(/\ last'.op \in {"set", "update"}
        /\ vals[last'.key] # None
        /\ CycleReachable(deps, last'.key))
       => /\ failure' = "recursion without end"
          /\ \E r \in ReactionKeys : TimesRun(r, trace') >= 2]_vars

\* C35, amended: when the dependency graph holds a cycle that can be reached
\* from a key and the recomputes of a live write to that key remove no edge
\* (every reaction observes again what it observed, or its dead links are not
\* unlinked), the write does not return: the propagation recurses without
\* end, over the same reactions again and again.
C35_PersistentCycleNeverCompletes ==
    [][(/\ last'.op \in {"set", "update"}
        /\ vals[last'.key] # None
        /\ CycleReachable(deps, last'.key)
        /\ \A k \in AllKeys : Range(deps[k]) \subseteq Range(deps'[k]))
       => /\ failure' = "recursion without end"
          /\ \E r \in ReactionKeys : TimesRun(r, trace') >= 2]_vars

\* a was set to 0 with ping and pong observing each other: bodies run on 0
\* observe a alone, so the cycle was there before the write, and the write ran
\* ping again and again.
C35_Witness ==
    /\ last.op = "set" /\ last.key = "a" /\ last.arg = 0
    /\ failure = "recursion without end"
    /\ deps["ping"] = <<"pong">> /\ deps["pong"] = <<"ping">>
    /\ TimesRun("ping", trace) >= 2

====
